---- MODULE Spec2Model ----
(***************************************************************************)
(* Model of the generic-std crate: the Sequence / SequenceMut traits and   *)
(* their Vec<T> implementation, the StreamingIterator trait with its       *)
(* blanket implementation for Iterator, the HKT forms of the plug module,  *)
(* and the Rcb / WeakRcb traits implemented for Rc<T> and Arc<T>.          *)
(***************************************************************************)
EXTENDS Integers, Sequences, FiniteSets, TLC

(***************************************************************************)
(* Bounds                                                                  *)
(***************************************************************************)
\* longest Vec the sequence model builds
MaxLen == 3
\* number of distinct element values
NumElems == 2

\* usize::MAX.  TLC's integers are 32 bits wide, so usize is narrowed to 31
\* bits; only the fact that 0 - 1 wraps to the largest value matters.
UsizeMax == 2147483647

Elems == 1..NumElems

None == <<"None">>
Some(x) == <<"Some", x>>
Unit == <<"Unit">>
Val(x) == <<"Val", x>>
Panic == <<"Panic">>

VARIABLES
    vec,            \* the Vec<T> under test
    call,           \* the last Sequence / SequenceMut call and its result
    prevCall,       \* the call before it
    overflowChecks, \* build profile: are integer overflow checks compiled in
    it,             \* the iterator driven through StreamingIterator::next
    outs,           \* what StreamingIterator::next returned, call by call
    twin,           \* the same iterator driven through Iterator::next
    twinOuts,       \* what Iterator::next returned, call by call
    R,              \* the Rcb implementation the client code is instantiated with
    rcInner,        \* the allocation behind the Rc<T> handles
    rcHeld,         \* Rc<T> handles the (single) thread owns
    rcWk,           \* rc::Weak<T> handles the thread owns
    rcRes,          \* the last Rc operation and its result
    arcInner,       \* the allocation behind the Arc<T> handles
    pc,             \* per thread: where it is inside an Arc operation
    prev,           \* per thread: the strong count it last read inside upgrade()
    held,           \* per thread: Arc<T> handles it owns
    wk,             \* per thread: sync::Weak<T> handles it owns
    arcRes,         \* the last Arc operation completed, by any thread, and its result
    clones,         \* Arc::clone calls made
    drops,          \* Arc handles dropped
    ups,            \* successful Weak::upgrade calls
    unwraps,        \* successful Arc::try_unwrap calls
    releases        \* times the value behind the Arc was dropped

seqVars == <<vec, call, prevCall, overflowChecks>>
iterVars == <<it, outs, twin, twinOuts>>
rcVars == <<rcInner, rcHeld, rcWk, rcRes>>
arcCounters == <<clones, drops, ups, unwraps, releases>>
arcVars == <<arcInner, pc, prev, held, wk, arcRes, arcCounters>>
rcbVars == <<R, rcVars, arcVars>>

vars == <<seqVars, iterVars, rcbVars>>

(***************************************************************************)
(* usize arithmetic                                                        *)
(***************************************************************************)
\* a - b on usize: the wrapped value, and whether the subtraction overflowed
UsizeSub(a, b) ==
    IF a >= b THEN [val |-> a - b, overflow |-> FALSE]
    ELSE [val |-> UsizeMax - (b - a) + 1, overflow |-> TRUE]

(***************************************************************************)
(* Sequence<T> for Vec<T>  (vec.rs)                                        *)
(***************************************************************************)
Vec_len(s) == Len(s)

Vec_is_empty(s) == Len(s) = 0

Vec_contains(s, x) == \E i \in 1..Len(s) : s[i] = x

\* a get that wraps an out-of-range index back into the sequence
Vec_get_wrapping(s, index) ==
    IF Len(s) = 0 THEN None ELSE Some(s[(index % Len(s)) + 1])

\* index is 0-based as in the source
Vec_get(s, index) == IF index < Len(s) THEN Some(s[index + 1]) ELSE None

Vec_first(s) == IF Len(s) = 0 THEN None ELSE Some(s[1])

Vec_last(s) == IF Len(s) = 0 THEN None ELSE Some(s[Len(s)])

(***************************************************************************)
(* Default methods of trait Sequence<T>  (lib.rs), for an implementation   *)
(* whose len() and get() are the ones above and which does not override    *)
(* them.  Each returns the result, the index handed to get(), and whether  *)
(* the index computation overflowed.                                       *)
(***************************************************************************)
Sequence_is_empty(s) == Vec_len(s) = 0

Sequence_first(s) == [ret |-> Vec_get(s, 0), index |-> 0, overflow |-> FALSE]

Sequence_last(s, checks) ==
    LET d == UsizeSub(Vec_len(s), 1) IN
    IF d.overflow /\ checks
    THEN [ret |-> Panic, index |-> d.val, overflow |-> TRUE]
    ELSE [ret |-> Vec_get(s, d.val), index |-> d.val, overflow |-> d.overflow]

(***************************************************************************)
(* SequenceMut<T> for Vec<T>  (vec.rs)                                     *)
(***************************************************************************)
Vec_clear(s) == << >>

\* a push that puts the element at the front
Vec_push_front(s, x) == <<x>> \o s

Vec_push(s, x) == Append(s, x)

\* a pop that takes the first element instead of the last
Vec_pop_front(s) ==
    IF Len(s) = 0 THEN [seq |-> s, ret |-> None]
    ELSE [seq |-> SubSeq(s, 2, Len(s)), ret |-> Some(s[1])]

Vec_pop(s) ==
    IF Len(s) = 0 THEN [seq |-> s, ret |-> None]
    ELSE [seq |-> SubSeq(s, 1, Len(s) - 1), ret |-> Some(s[Len(s)])]

\* Vec::insert panics when index > len
Vec_insert(s, index, x) ==
    IF index > Len(s) THEN [seq |-> s, ret |-> Panic]
    ELSE [seq |-> SubSeq(s, 1, index) \o <<x>> \o SubSeq(s, index + 1, Len(s)),
          ret |-> Unit]

\* a remove that fills the hole with the last element (swap_remove)
Vec_swap_remove(s, index) ==
    IF index >= Len(s) THEN [seq |-> s, ret |-> Panic]
    ELSE [seq |-> SubSeq([s EXCEPT ![index + 1] = s[Len(s)]], 1, Len(s) - 1),
          ret |-> Val(s[index + 1])]

\* Vec::remove panics when index >= len
Vec_remove(s, index) ==
    IF index >= Len(s) THEN [seq |-> s, ret |-> Panic]
    ELSE [seq |-> SubSeq(s, 1, index) \o SubSeq(s, index + 2, Len(s)),
          ret |-> Val(s[index + 1])]

(***************************************************************************)
(* HKT forms and their substitutions  (plug.rs, reference.rs, slice.rs,    *)
(* vec.rs, rc.rs, sync.rs).  Types and forms are tuples headed by a name.  *)
(***************************************************************************)
Lifetimes == {"a", "b"}
BaseTypes == {<<"usize">>, <<"String">>}

RefOf(a, T) == <<"&", a, T>>
SliceOf(T) == <<"[T]", T>>
IterOf(a, T) == <<"Iter", a, T>>
OptionOf(T) == <<"Option", T>>
VecOf(T) == <<"Vec", T>>
RcOf(T) == <<"Rc", T>>
ArcOf(T) == <<"Arc", T>>
RcWeakOf(T) == <<"rc::Weak", T>>
ArcWeakOf(T) == <<"sync::Weak", T>>

H0(T) == <<"H0", T>>
H2Reference == <<"H2Reference">>
H1Reference(a) == <<"H1Reference", a>>
TypedH1Reference(T) == <<"TypedH1Reference", T>>
TypedH1Iter(T) == <<"TypedH1Iter", T>>
H1Vec == <<"H1Vec">>
H1Rc == <<"H1Rc">>
H1RcWeak == <<"rc::H1Weak">>
H1Arc == <<"H1Arc">>
H1ArcWeak == <<"sync::H1Weak">>

\* the unsized types: slices.  Every other type here is Sized
IsSized(T) == T[1] # "[T]"

\* what the compiler answers when a projection names an impl whose bounds
\* the argument does not meet (error E0277)
E0277 == <<"E0277">>

\* the type X an impl with the implicit bound T: Sized yields for T
WhereSized(T, X) == IF IsSized(T) THEN X ELSE E0277

\* impl<'dummy, T> PlugLifetime<'dummy> for H0<T>.  struct H0<T> and the
\* impl both carry the implicit bound T: Sized
H0_PlugLifetime(T, a) == WhereSized(T, T)

\* impl<Dummy, T> PlugType<Dummy> for H0<T>.  Neither parameter is declared
\* ?Sized, so both carry the implicit bound Sized
H0_PlugType(T, Dummy) == WhereSized(Dummy, WhereSized(T, T))

\* <F as PlugLifetime<'a>>::T.  TypedH1Reference<T> declares T: ?Sized,
\* TypedH1Iter<T> does not
PlugLifetime(F, a) ==
    CASE F[1] = "H0" -> H0_PlugLifetime(F[2], a)
      [] F[1] = "H2Reference" -> H1Reference(a)
      [] F[1] = "TypedH1Reference" -> RefOf(a, F[2])
      [] F[1] = "TypedH1Iter" -> WhereSized(F[2], IterOf(a, F[2]))

\* <F as PlugType<T>>::T.  The trait admits T: ?Sized; of the impls only the
\* one for H1Reference<'a> declares it, the others require T: Sized
PlugType(F, T) ==
    CASE F[1] = "H0" -> H0_PlugType(F[2], T)
      [] F[1] = "H1Reference" -> RefOf(F[2], T)
      [] F[1] = "H1Vec" -> WhereSized(T, VecOf(T))
      [] F[1] = "H1Rc" -> WhereSized(T, RcOf(T))
      [] F[1] = "rc::H1Weak" -> WhereSized(T, RcWeakOf(T))
      [] F[1] = "H1Arc" -> WhereSized(T, ArcOf(T))
      [] F[1] = "sync::H1Weak" -> WhereSized(T, ArcWeakOf(T))

(***************************************************************************)
(* Iterators.  An iterator is a record: its concrete type and its state.   *)
(***************************************************************************)
\* number of next() calls made on one iterator
MaxCalls == 5
\* longest script of a from_fn iterator
MaxScript == 3

Seqs(S, n) == UNION {[1..k -> S] : k \in 0..n}

\* the iterator of the test self_borrowing_iterator: buf is [usize; 1]
SelfBorrowingIterator == [kind |-> "SelfBorrowingIterator", buf |-> <<0>>]

\* <Vec<T> as Sequence<T>>::iter: the slice iterator, whose type is the
\* sequence's iterator form with the caller's lifetime plugged in
Vec_iter(s, a) ==
    [kind |-> "Iter", ty |-> PlugLifetime(TypedH1Iter(<<"usize">>), a),
     slice |-> s, pos |-> 0]

\* std::iter::from_fn over a closure that replays a script of results; the
\* Iterator contract lets next() return Some again after None
FromFn(script) ==
    [kind |-> "FromFn", ty |-> <<"FromFn">>, script |-> script]

IterSources ==
    {SelfBorrowingIterator}
    \cup {Vec_iter(s, a) : s \in Seqs(Elems, MaxLen), a \in Lifetimes}
    \cup {FromFn(sc) : sc \in Seqs({None} \cup {Some(x) : x \in Elems}, MaxScript)}

NoIter == [kind |-> "none"]

IdleIter ==
    /\ it = NoIter
    /\ twin = NoIter
    /\ outs = << >>
    /\ twinOuts = << >>

IsIterator(i) == i.kind \in {"Iter", "FromFn"}

\* Iterator::Item
Item(i) ==
    CASE i.kind = "Iter" -> RefOf(i.ty[2], i.ty[3])
      [] i.kind = "FromFn" -> <<"usize">>

\* StreamingIterator::H1Item
H1Item(i) ==
    CASE i.kind = "SelfBorrowingIterator" -> TypedH1Reference(SliceOf(<<"usize">>))
      [] IsIterator(i) -> H0(Item(i))

\* Iterator::next of the std iterators
Iterator_next(i) ==
    CASE i.kind = "Iter" ->
            IF i.pos < Len(i.slice)
            THEN [it |-> [i EXCEPT !.pos = i.pos + 1],
                  ret |-> [ty |-> OptionOf(Item(i)), val |-> Some(i.slice[i.pos + 1])]]
            ELSE [it |-> i, ret |-> [ty |-> OptionOf(Item(i)), val |-> None]]
      [] i.kind = "FromFn" ->
            IF i.script = << >>
            THEN [it |-> i, ret |-> [ty |-> OptionOf(Item(i)), val |-> None]]
            ELSE [it |-> [i EXCEPT !.script = Tail(i.script)],
                  ret |-> [ty |-> OptionOf(Item(i)), val |-> Head(i.script)]]

\* a self-borrowing iterator that starts over once it is exhausted
SelfBorrowingIterator_next_restarting(i, a) ==
    LET T == OptionOf(PlugLifetime(H1Item(i), a)) IN
    IF i.buf[1] = 2
    THEN [it |-> [i EXCEPT !.buf = <<0>>], ret |-> [ty |-> T, val |-> None]]
    ELSE [it |-> [i EXCEPT !.buf = <<i.buf[1] + 1>>],
          ret |-> [ty |-> T, val |-> Some(<<i.buf[1] + 1>>)]]

\* <SelfBorrowingIterator as StreamingIterator>::next
SelfBorrowingIterator_next(i, a) ==
    LET T == OptionOf(PlugLifetime(H1Item(i), a)) IN
    IF i.buf[1] = 2
    THEN [it |-> i, ret |-> [ty |-> T, val |-> None]]
    ELSE [it |-> [i EXCEPT !.buf = <<i.buf[1] + 1>>],
          ret |-> [ty |-> T, val |-> Some(<<i.buf[1] + 1>>)]]

\* a blanket implementation that calls the iterator twice per call
Blanket_next_skipping(i, a) ==
    LET r == Iterator_next(Iterator_next(i).it) IN
    [it |-> r.it,
     ret |-> [ty |-> OptionOf(PlugLifetime(H1Item(i), a)), val |-> r.ret.val]]

\* impl<I: Iterator> StreamingIterator for I: next() is Iterator::next(self),
\* returned at the type Option<<H0<I::Item> as PlugLifetime<'a>>::T>
Blanket_next(i, a) ==
    LET r == Iterator_next(i) IN
    [it |-> r.it,
     ret |-> [ty |-> OptionOf(PlugLifetime(H1Item(i), a)), val |-> r.ret.val]]

\* StreamingIterator::next, dispatched on the implementing type
StreamingIterator_next(i, a) ==
    CASE i.kind = "SelfBorrowingIterator" -> SelfBorrowingIterator_next(i, a)
      [] IsIterator(i) -> Blanket_next(i, a)

(***************************************************************************)
(* Reference-counted boxes  (rc.rs, sync.rs).  The allocation behind the   *)
(* handles is a record: the strong count, the number of weak handles,      *)
(* whether the value is still stored, and the value.                       *)
(***************************************************************************)
\* threads sharing one Arc
NumThreads == 2
\* strong handles alive at once in a single-threaded client
MaxHandles == 3
\* strong handles alive at once among the threads sharing an Arc; with the
\* MaxClones clones of one run a thread can clone while another thread owns
\* a handle, and two threads can clone one after the other in either order
MaxShared == 3
\* weak handles alive at once
MaxWeak == 2
\* Arc::clone calls in one run
MaxClones == 2
\* successful upgrades in one run
MaxUps == 1

Threads == 1..NumThreads

\* the values a box is created with: two, so that a result carrying the
\* wrong value shows
BoxValues == {1, 2}

Ok(v) == <<"Ok", v>>
Err == <<"Err", "handle">>
SomeHandle == <<"Some", "handle">>
Dangling == <<"Dangling">>

NoBox == [strong |-> 0, weak |-> 0, live |-> FALSE, val |-> 0]
NoRes == [op |-> "none", ret |-> Unit]

\* <Rc<T> as Rcb<T>>::new
Rc_new(v) == [strong |-> 1, weak |-> 0, live |-> TRUE, val |-> v]

\* <Rc<T> as Clone>::clone, required by Rcb<T>: Clone
Rc_clone(b) == [b EXCEPT !.strong = b.strong + 1]

\* <Rc<T> as Deref>::deref, required by Rcb<T>: Deref<Target = T>
Rc_deref(b) == IF b.live THEN Val(b.val) ELSE Dangling

\* dropping an Rc<T>: the value goes with the last strong handle
Rc_drop(b) ==
    [b EXCEPT !.strong = b.strong - 1,
              !.live = IF b.strong = 1 THEN FALSE ELSE b.live]

\* a try_unwrap that does not look at the strong count
Rc_try_unwrap_unchecked(b) ==
    [inner |-> [b EXCEPT !.strong = b.strong - 1, !.live = FALSE],
     ret |-> Ok(b.val)]

\* <Rc<T> as Rcb<T>>::try_unwrap
Rc_try_unwrap(b) ==
    IF b.strong = 1
    THEN [inner |-> [b EXCEPT !.strong = 0, !.live = FALSE], ret |-> Ok(b.val)]
    ELSE [inner |-> b, ret |-> Err]

\* <Rc<T> as Rcb<T>>::downgrade
Rc_downgrade(b) == [b EXCEPT !.weak = b.weak + 1]

\* <rc::Weak<T> as WeakRcb<T>>::upgrade
RcWeak_upgrade(b) ==
    IF b.strong = 0
    THEN [inner |-> b, ret |-> None]
    ELSE [inner |-> [b EXCEPT !.strong = b.strong + 1], ret |-> SomeHandle]

\* dropping an rc::Weak<T>
RcWeak_drop(b) == [b EXCEPT !.weak = b.weak - 1]

\* <Arc<T> as Rcb<T>>::new
Arc_new(v) == [strong |-> 1, weak |-> 0, live |-> TRUE, val |-> v]

\* the atomic read-modify-write operations on the strong count
strong_fetch_add(b) == [inner |-> [b EXCEPT !.strong = b.strong + 1], old |-> b.strong]

strong_fetch_sub(b) == [inner |-> [b EXCEPT !.strong = b.strong - 1], old |-> b.strong]

strong_compare_exchange(b, current, new) ==
    IF b.strong = current
    THEN [inner |-> [b EXCEPT !.strong = new], ok |-> TRUE, old |-> b.strong]
    ELSE [inner |-> b, ok |-> FALSE, old |-> b.strong]

\* a clone that copies the handle without counting it
Arc_clone_uncounted(b) == b

\* <Arc<T> as Clone>::clone: one fetch_add on the strong count
Arc_clone(b) == strong_fetch_add(b).inner

\* <Arc<T> as Deref>::deref
Arc_deref(b) == IF b.live THEN Val(b.val) ELSE Dangling

\* Arc::drop_slow: the last strong handle drops the value
Arc_drop_slow(b) == [b EXCEPT !.live = FALSE]

\* dropping an Arc<T> with no other thread running
Arc_drop(b) ==
    LET r == strong_fetch_sub(b) IN
    IF r.old = 1 THEN Arc_drop_slow(r.inner) ELSE r.inner

\* a try_unwrap that also succeeds while one other handle is outstanding
Arc_try_unwrap_lax(b) ==
    IF b.strong \in {1, 2}
    THEN [inner |-> [b EXCEPT !.strong = b.strong - 1, !.live = FALSE], ret |-> Ok(b.val)]
    ELSE [inner |-> b, ret |-> Err]

\* <Arc<T> as Rcb<T>>::try_unwrap: compare_exchange(1, 0) on the strong
\* count, then the value is moved out
Arc_try_unwrap(b) ==
    LET r == strong_compare_exchange(b, 1, 0) IN
    IF r.ok
    THEN [inner |-> [r.inner EXCEPT !.live = FALSE], ret |-> Ok(b.val)]
    ELSE [inner |-> b, ret |-> Err]

\* <Arc<T> as Rcb<T>>::downgrade
Arc_downgrade(b) == [b EXCEPT !.weak = b.weak + 1]

\* an increment that does not refuse a count of zero
unchecked_increment(n) == Some(n + 1)

\* the update function of Weak::upgrade: a count of zero is never raised
checked_increment(n) == IF n = 0 THEN None ELSE Some(n + 1)

\* <sync::Weak<T> as WeakRcb<T>>::upgrade with no other thread running
ArcWeak_upgrade(b) ==
    LET c == checked_increment(b.strong) IN
    IF c = None
    THEN [inner |-> b, ret |-> None]
    ELSE [inner |-> strong_compare_exchange(b, b.strong, c[2]).inner,
          ret |-> SomeHandle]

\* dropping a sync::Weak<T>
ArcWeak_drop(b) == [b EXCEPT !.weak = b.weak - 1]

\* the box type, named directly or obtained by plugging T into the HKT form
BoxType(strategy, naming, T) ==
    CASE strategy = "Rc" /\ naming = "direct" -> RcOf(T)
      [] strategy = "Rc" /\ naming = "hkt" -> PlugType(H1Rc, T)
      [] strategy = "Arc" /\ naming = "direct" -> ArcOf(T)
      [] strategy = "Arc" /\ naming = "hkt" -> PlugType(H1Arc, T)

\* R::new(v) in code generic over R: Rcb<T>
Rcb_new(ty, v) ==
    CASE ty[1] = "Rc" -> Rc_new(v)
      [] ty[1] = "Arc" -> Arc_new(v)

Namings == {"direct", "hkt"}

ZeroCounters ==
    /\ clones = 0
    /\ drops = 0
    /\ ups = 0
    /\ unwraps = 0
    /\ releases = 0

IdleRc ==
    /\ rcInner = NoBox
    /\ rcHeld = 0
    /\ rcWk = 0
    /\ rcRes = NoRes

IdleArc ==
    /\ arcInner = NoBox
    /\ held = [t \in Threads |-> 0]
    /\ ZeroCounters

IdleThreads ==
    /\ pc = [t \in Threads |-> "idle"]
    /\ prev = [t \in Threads |-> 0]
    /\ wk = [t \in Threads |-> 0]
    /\ arcRes = NoRes

IdleRcb == R = "none" /\ IdleRc /\ IdleArc /\ IdleThreads

\* the state after R::new(v): one strong handle, owned by the creating thread
StartRc(naming, v) ==
    /\ rcInner = Rcb_new(BoxType("Rc", naming, <<"usize">>), v)
    /\ rcHeld = 1
    /\ rcWk = 0
    /\ rcRes = [op |-> "new", ret |-> Unit]

StartArc(naming, v) ==
    /\ arcInner = Rcb_new(BoxType("Arc", naming, <<"usize">>), v)
    /\ held = [t \in Threads |-> IF t = 1 THEN 1 ELSE 0]
    /\ ZeroCounters
    /\ pc = [t \in Threads |-> "idle"]
    /\ prev = [t \in Threads |-> 0]
    /\ wk = [t \in Threads |-> 0]
    /\ arcRes = [op |-> "new", ret |-> Unit]

RECURSIVE SumTo(_, _)
\* f[1] + ... + f[n]
SumTo(f, n) == IF n = 0 THEN 0 ELSE f[n] + SumTo(f, n - 1)

\* strong handles owned by the threads, all together
TotalHeld == SumTo(held, NumThreads)

\* weak handles owned by the threads, all together
TotalWk == SumTo(wk, NumThreads)

(***************************************************************************)
(* Sequence actions                                                        *)
(***************************************************************************)
NoCall == [op |-> "none", index |-> 0, x |-> 0, pre |-> << >>, ret |-> Unit,
           overflow |-> FALSE]

Record(op, index, x, ret, overflow) ==
    /\ prevCall' = call
    /\ call' = [op |-> op, index |-> index, x |-> x, pre |-> vec, ret |-> ret,
                overflow |-> overflow]

\* a panic unwinds the caller: nothing runs after it
SeqRunning == call.ret # Panic

StartSeq ==
    /\ vec = << >>
    /\ call = NoCall
    /\ prevCall = NoCall

InitSeq ==
    /\ StartSeq
    /\ overflowChecks \in BOOLEAN
    /\ IdleIter
    /\ IdleRcb

Push ==
    /\ SeqRunning
    /\ Len(vec) < MaxLen
    /\ \E x \in Elems :
        /\ vec' = Vec_push(vec, x)
        /\ Record("push", 0, x, Unit, FALSE)
    /\ UNCHANGED <<overflowChecks, iterVars, rcbVars>>

Pop ==
    /\ SeqRunning
    /\ LET r == Vec_pop(vec) IN
        /\ vec' = r.seq
        /\ Record("pop", 0, 0, r.ret, FALSE)
    /\ UNCHANGED <<overflowChecks, iterVars, rcbVars>>

Insert ==
    /\ SeqRunning
    /\ Len(vec) < MaxLen
    /\ \E index \in 0..(MaxLen + 1), x \in Elems :
        LET r == Vec_insert(vec, index, x) IN
        /\ vec' = r.seq
        /\ Record("insert", index, x, r.ret, FALSE)
    /\ UNCHANGED <<overflowChecks, iterVars, rcbVars>>

Remove ==
    /\ SeqRunning
    /\ \E index \in 0..(MaxLen + 1) :
        LET r == Vec_remove(vec, index) IN
        /\ vec' = r.seq
        /\ Record("remove", index, 0, r.ret, FALSE)
    /\ UNCHANGED <<overflowChecks, iterVars, rcbVars>>

Clear ==
    /\ SeqRunning
    /\ vec' = Vec_clear(vec)
    /\ Record("clear", 0, 0, Unit, FALSE)
    /\ UNCHANGED <<overflowChecks, iterVars, rcbVars>>

Get ==
    /\ SeqRunning
    /\ \E index \in (0..(MaxLen + 1)) \cup {UsizeMax} :
        Record("get", index, 0, Vec_get(vec, index), FALSE)
    /\ UNCHANGED <<vec, overflowChecks, iterVars, rcbVars>>

First ==
    /\ SeqRunning
    /\ Record("first", 0, 0, Vec_first(vec), FALSE)
    /\ UNCHANGED <<vec, overflowChecks, iterVars, rcbVars>>

Last ==
    /\ SeqRunning
    /\ Record("last", 0, 0, Vec_last(vec), FALSE)
    /\ UNCHANGED <<vec, overflowChecks, iterVars, rcbVars>>

DefaultFirst ==
    /\ SeqRunning
    /\ LET r == Sequence_first(vec) IN
        Record("default_first", r.index, 0, r.ret, r.overflow)
    /\ UNCHANGED <<vec, overflowChecks, iterVars, rcbVars>>

DefaultLast ==
    /\ SeqRunning
    /\ LET r == Sequence_last(vec, overflowChecks) IN
        Record("default_last", r.index, 0, r.ret, r.overflow)
    /\ UNCHANGED <<vec, overflowChecks, iterVars, rcbVars>>

NextSeq ==
    \/ Push \/ Pop \/ Insert \/ Remove \/ Clear
    \/ Get \/ First \/ Last \/ DefaultFirst \/ DefaultLast

SpecSeq == InitSeq /\ [][NextSeq]_vars

(***************************************************************************)
(* Iterator actions                                                        *)
(***************************************************************************)
InitIter ==
    /\ \E src \in IterSources : it = src /\ twin = src
    /\ outs = << >>
    /\ twinOuts = << >>
    /\ StartSeq
    /\ overflowChecks = FALSE
    /\ IdleRcb

\* a call of next() through the StreamingIterator trait; the caller's borrow
\* of the iterator has the lifetime a
StreamingNext ==
    /\ Len(outs) < MaxCalls
    /\ \E a \in Lifetimes :
        LET r == StreamingIterator_next(it, a) IN
        /\ it' = r.it
        /\ outs' = Append(outs, r.ret)
    /\ UNCHANGED <<twin, twinOuts, seqVars, rcbVars>>

\* a call of the iterator's own next()
DirectNext ==
    /\ IsIterator(twin)
    /\ Len(twinOuts) < MaxCalls
    /\ LET r == Iterator_next(twin) IN
        /\ twin' = r.it
        /\ twinOuts' = Append(twinOuts, r.ret)
    /\ UNCHANGED <<it, outs, seqVars, rcbVars>>

NextIter == StreamingNext \/ DirectNext

SpecIter == InitIter /\ [][NextIter]_vars

(***************************************************************************)
(* Rc<T>: one thread, every operation one step.  The ...Op formulas are    *)
(* the operations on the Rc variables alone.                               *)
(***************************************************************************)
RcRest == <<R, arcVars, seqVars, iterVars>>

RcCloneOp ==
    /\ rcHeld >= 1
    /\ rcHeld < MaxHandles
    /\ rcInner' = Rc_clone(rcInner)
    /\ rcHeld' = rcHeld + 1
    /\ rcRes' = [op |-> "clone", ret |-> Unit]
    /\ UNCHANGED rcWk

RcDerefOp ==
    /\ rcHeld >= 1
    /\ rcRes' = [op |-> "deref", ret |-> Rc_deref(rcInner)]
    /\ UNCHANGED <<rcInner, rcHeld, rcWk>>

RcDropOp ==
    /\ rcHeld >= 1
    /\ rcInner' = Rc_drop(rcInner)
    /\ rcHeld' = rcHeld - 1
    /\ rcRes' = [op |-> "drop", ret |-> Unit]
    /\ UNCHANGED rcWk

RcTryUnwrapOp ==
    /\ rcHeld >= 1
    /\ LET r == Rc_try_unwrap(rcInner) IN
        /\ rcInner' = r.inner
        /\ rcHeld' = IF r.ret = Err THEN rcHeld ELSE rcHeld - 1
        /\ rcRes' = [op |-> "try_unwrap", ret |-> r.ret]
    /\ UNCHANGED rcWk

RcDowngradeOp ==
    /\ rcHeld >= 1
    /\ rcWk < MaxWeak
    /\ rcInner' = Rc_downgrade(rcInner)
    /\ rcWk' = rcWk + 1
    /\ rcRes' = [op |-> "downgrade", ret |-> Unit]
    /\ UNCHANGED rcHeld

RcUpgradeOp ==
    /\ rcWk >= 1
    /\ rcHeld < MaxHandles
    /\ LET r == RcWeak_upgrade(rcInner) IN
        /\ rcInner' = r.inner
        /\ rcHeld' = IF r.ret = None THEN rcHeld ELSE rcHeld + 1
        /\ rcRes' = [op |-> "upgrade", ret |-> r.ret]
    /\ UNCHANGED rcWk

RcWeakDropOp ==
    /\ rcWk >= 1
    /\ rcInner' = RcWeak_drop(rcInner)
    /\ rcWk' = rcWk - 1
    /\ rcRes' = [op |-> "weak_drop", ret |-> Unit]
    /\ UNCHANGED rcHeld

RcClone == R = "Rc" /\ RcCloneOp /\ UNCHANGED RcRest

RcDeref == R = "Rc" /\ RcDerefOp /\ UNCHANGED RcRest

RcDrop == R = "Rc" /\ RcDropOp /\ UNCHANGED RcRest

RcTryUnwrap == R = "Rc" /\ RcTryUnwrapOp /\ UNCHANGED RcRest

RcDowngrade == R = "Rc" /\ RcDowngradeOp /\ UNCHANGED RcRest

RcUpgrade == R = "Rc" /\ RcUpgradeOp /\ UNCHANGED RcRest

RcWeakDrop == R = "Rc" /\ RcWeakDropOp /\ UNCHANGED RcRest

NextRc ==
    \/ RcClone \/ RcDeref \/ RcDrop \/ RcTryUnwrap
    \/ RcDowngrade \/ RcUpgrade \/ RcWeakDrop

(***************************************************************************)
(* Arc<T>: several threads; clone, try_unwrap and downgrade are one atomic *)
(* step, drop and upgrade are two                                          *)
(***************************************************************************)
ArcRest == <<R, rcVars, seqVars, iterVars>>

\* thread t clones a handle it owns and hands the clone to thread u
ArcClone(t) ==
    /\ R = "Arc"
    /\ pc[t] = "idle"
    /\ held[t] >= 1
    /\ arcInner.strong < MaxShared
    /\ clones < MaxClones
    /\ arcInner' = Arc_clone(arcInner)
    /\ \E u \in Threads : held' = [held EXCEPT ![u] = @ + 1]
    /\ clones' = clones + 1
    /\ arcRes' = [op |-> "clone", ret |-> Unit]
    /\ UNCHANGED <<pc, prev, wk, drops, ups, unwraps, releases, ArcRest>>

ArcDeref(t) ==
    /\ R = "Arc"
    /\ pc[t] = "idle"
    /\ held[t] >= 1
    /\ arcRes' = [op |-> "deref", ret |-> Arc_deref(arcInner)]
    /\ UNCHANGED <<arcInner, pc, prev, held, wk, arcCounters, ArcRest>>

\* Arc::drop, first step: fetch_sub on the strong count
ArcDropDec(t) ==
    /\ R = "Arc"
    /\ pc[t] = "idle"
    /\ held[t] >= 1
    /\ LET r == strong_fetch_sub(arcInner) IN
        /\ arcInner' = r.inner
        /\ pc' = [pc EXCEPT ![t] = IF r.old = 1 THEN "drop_slow" ELSE "idle"]
    /\ held' = [held EXCEPT ![t] = @ - 1]
    /\ drops' = drops + 1
    /\ arcRes' = [op |-> "drop", ret |-> Unit]
    /\ UNCHANGED <<prev, wk, clones, ups, unwraps, releases, ArcRest>>

\* Arc::drop, second step, taken only by the thread that saw the count 1
ArcDropSlow(t) ==
    /\ R = "Arc"
    /\ pc[t] = "drop_slow"
    /\ arcInner' = Arc_drop_slow(arcInner)
    /\ releases' = releases + 1
    /\ pc' = [pc EXCEPT ![t] = "idle"]
    /\ UNCHANGED <<prev, held, wk, arcRes, clones, drops, ups, unwraps, ArcRest>>

ArcTryUnwrap(t) ==
    /\ R = "Arc"
    /\ pc[t] = "idle"
    /\ held[t] >= 1
    /\ LET r == Arc_try_unwrap(arcInner) IN
        /\ arcInner' = r.inner
        /\ held' = IF r.ret = Err THEN held ELSE [held EXCEPT ![t] = @ - 1]
        /\ unwraps' = IF r.ret = Err THEN unwraps ELSE unwraps + 1
        /\ arcRes' = [op |-> "try_unwrap", ret |-> r.ret]
    /\ UNCHANGED <<pc, prev, wk, clones, drops, ups, releases, ArcRest>>

\* thread t downgrades a handle it owns and hands the weak handle to thread u
ArcDowngrade(t) ==
    /\ R = "Arc"
    /\ pc[t] = "idle"
    /\ held[t] >= 1
    /\ TotalWk < MaxWeak
    /\ arcInner' = Arc_downgrade(arcInner)
    /\ \E u \in Threads : wk' = [wk EXCEPT ![u] = @ + 1]
    /\ arcRes' = [op |-> "downgrade", ret |-> Unit]
    /\ UNCHANGED <<pc, prev, held, arcCounters, ArcRest>>

\* Weak::upgrade, first step: load the strong count
ArcUpgradeLoad(t) ==
    /\ R = "Arc"
    /\ pc[t] = "idle"
    /\ wk[t] >= 1
    /\ arcInner.strong < MaxShared
    /\ ups < MaxUps
    /\ prev' = [prev EXCEPT ![t] = arcInner.strong]
    /\ pc' = [pc EXCEPT ![t] = "upgrade"]
    /\ UNCHANGED <<arcInner, held, wk, arcRes, arcCounters, ArcRest>>

\* Weak::upgrade, second step: give up on a count of zero, otherwise try to
\* swap in the incremented count; a failed swap reads the count again
ArcUpgradeCas(t) ==
    /\ R = "Arc"
    /\ pc[t] = "upgrade"
    /\ LET c == checked_increment(prev[t]) IN
        IF c = None
        THEN /\ arcRes' = [op |-> "upgrade", ret |-> None]
             /\ pc' = [pc EXCEPT ![t] = "idle"]
             /\ prev' = [prev EXCEPT ![t] = 0]
             /\ UNCHANGED <<arcInner, held, ups>>
        ELSE LET r == strong_compare_exchange(arcInner, prev[t], c[2]) IN
             IF r.ok
             THEN /\ arcInner' = r.inner
                  /\ held' = [held EXCEPT ![t] = @ + 1]
                  /\ ups' = ups + 1
                  /\ arcRes' = [op |-> "upgrade", ret |-> SomeHandle]
                  /\ pc' = [pc EXCEPT ![t] = "idle"]
                  /\ prev' = [prev EXCEPT ![t] = 0]
             ELSE /\ prev' = [prev EXCEPT ![t] = r.old]
                  /\ UNCHANGED <<arcInner, held, ups, arcRes, pc>>
    /\ UNCHANGED <<wk, clones, drops, unwraps, releases, ArcRest>>

ArcWeakDrop(t) ==
    /\ R = "Arc"
    /\ pc[t] = "idle"
    /\ wk[t] >= 1
    /\ arcInner' = ArcWeak_drop(arcInner)
    /\ wk' = [wk EXCEPT ![t] = @ - 1]
    /\ arcRes' = [op |-> "weak_drop", ret |-> Unit]
    /\ UNCHANGED <<pc, prev, held, arcCounters, ArcRest>>

NextArc ==
    \E t \in Threads :
        \/ ArcClone(t) \/ ArcDeref(t) \/ ArcDropDec(t) \/ ArcDropSlow(t)
        \/ ArcTryUnwrap(t) \/ ArcDowngrade(t)
        \/ ArcUpgradeLoad(t) \/ ArcUpgradeCas(t) \/ ArcWeakDrop(t)

\* client code generic over R: Rcb<T>, instantiated with Rc<T> or Arc<T>
InitRcb ==
    /\ R \in {"Rc", "Arc"}
    /\ \E naming \in Namings, v \in BoxValues :
        /\ IF R = "Rc" THEN StartRc(naming, v) ELSE IdleRc
        /\ IF R = "Arc" THEN StartArc(naming, v) ELSE IdleArc /\ IdleThreads
    /\ StartSeq
    /\ overflowChecks = FALSE
    /\ IdleIter

NextRcb == NextRc \/ NextArc

SpecRcb == InitRcb /\ [][NextRcb]_vars

(***************************************************************************)
(* The same single-threaded client run on an Rc<T> and on an Arc<T> side   *)
(* by side: every step applies one operation to both boxes.  On the Arc    *)
(* side thread 1 runs each operation to its end.                           *)
(***************************************************************************)
SoloRest == <<pc, prev, arcCounters>>

SoloCloneOp ==
    /\ held[1] >= 1
    /\ arcInner' = Arc_clone(arcInner)
    /\ held' = [held EXCEPT ![1] = @ + 1]
    /\ arcRes' = [op |-> "clone", ret |-> Unit]
    /\ UNCHANGED <<wk, SoloRest>>

SoloDerefOp ==
    /\ held[1] >= 1
    /\ arcRes' = [op |-> "deref", ret |-> Arc_deref(arcInner)]
    /\ UNCHANGED <<arcInner, held, wk, SoloRest>>

SoloDropOp ==
    /\ held[1] >= 1
    /\ arcInner' = Arc_drop(arcInner)
    /\ held' = [held EXCEPT ![1] = @ - 1]
    /\ arcRes' = [op |-> "drop", ret |-> Unit]
    /\ UNCHANGED <<wk, SoloRest>>

SoloTryUnwrapOp ==
    /\ held[1] >= 1
    /\ LET r == Arc_try_unwrap(arcInner) IN
        /\ arcInner' = r.inner
        /\ held' = IF r.ret = Err THEN held ELSE [held EXCEPT ![1] = @ - 1]
        /\ arcRes' = [op |-> "try_unwrap", ret |-> r.ret]
    /\ UNCHANGED <<wk, SoloRest>>

SoloDowngradeOp ==
    /\ held[1] >= 1
    /\ arcInner' = Arc_downgrade(arcInner)
    /\ wk' = [wk EXCEPT ![1] = @ + 1]
    /\ arcRes' = [op |-> "downgrade", ret |-> Unit]
    /\ UNCHANGED <<held, SoloRest>>

SoloUpgradeOp ==
    /\ wk[1] >= 1
    /\ LET r == ArcWeak_upgrade(arcInner) IN
        /\ arcInner' = r.inner
        /\ held' = IF r.ret = None THEN held ELSE [held EXCEPT ![1] = @ + 1]
        /\ arcRes' = [op |-> "upgrade", ret |-> r.ret]
    /\ UNCHANGED <<wk, SoloRest>>

SoloWeakDropOp ==
    /\ wk[1] >= 1
    /\ arcInner' = ArcWeak_drop(arcInner)
    /\ wk' = [wk EXCEPT ![1] = @ - 1]
    /\ arcRes' = [op |-> "weak_drop", ret |-> Unit]
    /\ UNCHANGED <<held, SoloRest>>

EqRest == <<R, seqVars, iterVars>>

EqClone == R = "both" /\ RcCloneOp /\ SoloCloneOp /\ UNCHANGED EqRest

EqDeref == R = "both" /\ RcDerefOp /\ SoloDerefOp /\ UNCHANGED EqRest

EqDrop == R = "both" /\ RcDropOp /\ SoloDropOp /\ UNCHANGED EqRest

EqTryUnwrap == R = "both" /\ RcTryUnwrapOp /\ SoloTryUnwrapOp /\ UNCHANGED EqRest

EqDowngrade == R = "both" /\ RcDowngradeOp /\ SoloDowngradeOp /\ UNCHANGED EqRest

EqUpgrade == R = "both" /\ RcUpgradeOp /\ SoloUpgradeOp /\ UNCHANGED EqRest

EqWeakDrop == R = "both" /\ RcWeakDropOp /\ SoloWeakDropOp /\ UNCHANGED EqRest

\* both boxes are created by new(v) with the same v, each named either way
InitEquiv ==
    /\ R = "both"
    /\ \E v \in BoxValues :
        /\ \E naming \in Namings : StartRc(naming, v)
        /\ \E naming \in Namings : StartArc(naming, v)
    /\ StartSeq
    /\ overflowChecks = FALSE
    /\ IdleIter

NextEquiv ==
    \/ EqClone \/ EqDeref \/ EqDrop \/ EqTryUnwrap
    \/ EqDowngrade \/ EqUpgrade \/ EqWeakDrop

SpecEquiv == InitEquiv /\ [][NextEquiv]_vars

(***************************************************************************)
(* Properties of the sequence protocols                                    *)
(***************************************************************************)
ReadOps == {"first", "last", "default_first", "default_last"}

\* C1: first() and last() on an empty sequence return None, without a panic
\* and without the index computation of last() underflowing or wrapping,
\* for the Vec implementation and for one that inherits the trait defaults.
C1_EmptyFirstLastIsNone ==
    (call.op \in ReadOps /\ call.pre = << >>)
        => (call.ret = None /\ ~call.overflow)

\* C8: insert(index, x) with index <= len followed by remove(index) returns
\* x and leaves the sequence as it was before the insert.
C8_InsertRemoveRoundTrip ==
    (/\ call.op = "remove"
     /\ prevCall.op = "insert"
     /\ prevCall.index = call.index
     /\ prevCall.index <= Len(prevCall.pre))
        => (call.ret = Val(prevCall.x) /\ vec = prevCall.pre)

C8_Witness ==
    /\ call.op = "remove"
    /\ prevCall.op = "insert"
    /\ prevCall.index = call.index
    /\ Len(prevCall.pre) = 2
    /\ prevCall.index = 1
    /\ prevCall.pre[1] # prevCall.pre[2]
    /\ call.ret = Val(prevCall.x)

\* C9: pop() right after push(x) returns Some(x) and restores the contents
\* and length; pop() returns None exactly when the sequence is empty.
C9_PushPopInverse ==
    /\ (call.op = "pop" /\ prevCall.op = "push")
        => (/\ call.ret = Some(prevCall.x)
            /\ vec = prevCall.pre
            /\ Len(vec) = Len(prevCall.pre))
    /\ (call.op = "pop") => ((call.ret = None) <=> (call.pre = << >>))

C9_Witness ==
    /\ call.op = "pop"
    /\ prevCall.op = "push"
    /\ Len(prevCall.pre) = 2
    /\ prevCall.pre[1] # prevCall.x
    /\ call.ret = Some(prevCall.x)

\* C10: after push(x), last() (the Vec override and the trait default alike)
\* returns Some(x), len() is one more than before, and the earlier elements
\* keep their positions.
C10_PushThenLast ==
    /\ (call.op = "push")
        => (/\ Vec_len(vec) = Vec_len(call.pre) + 1
            /\ \A i \in 1..Len(call.pre) : vec[i] = call.pre[i]
            /\ Vec_last(vec) = Some(call.x)
            /\ Sequence_last(vec, overflowChecks).ret = Some(call.x))
    /\ (call.op \in {"last", "default_last"} /\ prevCall.op = "push")
        => (call.ret = Some(prevCall.x) /\ ~call.overflow)

C10_Witness ==
    /\ call.op \in {"last", "default_last"}
    /\ prevCall.op = "push"
    /\ Len(prevCall.pre) = 2
    /\ prevCall.pre[2] # prevCall.x
    /\ call.ret = Some(prevCall.x)

\* C11: get(index) returns None exactly when index >= len() and otherwise
\* the element at that position; a get, in range or not, does not panic and
\* leaves the sequence as it was.
C11_GetBoundsChecked ==
    (call.op = "get") =>
        /\ (call.ret = None) <=> (call.index >= Vec_len(call.pre))
        /\ (call.index < Vec_len(call.pre)) =>
            call.ret = Some(call.pre[call.index + 1])
        /\ call.ret # Panic
        /\ vec = call.pre

C11_Witness ==
    /\ call.op = "get"
    /\ Len(call.pre) = 2
    /\ call.index = 2
    /\ call.ret = None
    /\ prevCall.op = "get"
    /\ prevCall.index = 1
    /\ prevCall.ret = Some(vec[2])
    /\ vec[1] # vec[2]

(***************************************************************************)
(* Properties of the borrowing-iteration protocol and the identity form    *)
(***************************************************************************)
FusedKinds == {"SelfBorrowingIterator", "Iter"}

\* C2 as stated: for every StreamingIterator, also a std Iterator reached
\* through the blanket implementation, a call of next() that follows a call
\* which returned None returns None.
C2_ExhaustedIsTerminal ==
    [][(/\ outs # << >>
        /\ outs[Len(outs)].val = None
        /\ Len(outs') > Len(outs))
            => outs'[Len(outs')].val = None]_vars

\* C2 as amended: the same, for the self-borrowing iterator of the tests and
\* for the slice iterator that Vec's iter() returns.  The blanket
\* implementation forwards to Iterator::next and adds no fusing of its own.
C2_FusedExhaustedIsTerminal ==
    [][(/\ it.kind \in FusedKinds
        /\ outs # << >>
        /\ outs[Len(outs)].val = None
        /\ Len(outs') > Len(outs))
            => (outs'[Len(outs')].val = None /\ it' = it)]_vars

C2_Witness ==
    /\ it.kind = "SelfBorrowingIterator"
    /\ Len(outs) = 5
    /\ outs[2].val = Some(<<2>>)
    /\ outs[3].val = None
    /\ outs[4].val = None
    /\ outs[5].val = None

\* the Sized types plugged: base types, references and Vecs
SizedArgs ==
    BaseTypes
    \cup {RefOf(a, T) : a \in Lifetimes, T \in BaseTypes}
    \cup {VecOf(T) : T \in BaseTypes}

\* the types plugged: the Sized ones and the slices [T], which PlugType's
\* T: ?Sized admits as arguments
PlugArgs == SizedArgs \cup {SliceOf(T) : T \in BaseTypes}

Min(m, n) == IF m <= n THEN m ELSE n

\* an Iterator driven through the blanket implementation returns, call for
\* call, what its own next() returns, at the same type
BlanketTransparent ==
    IsIterator(it) =>
        /\ \A k \in 1..Min(Len(outs), Len(twinOuts)) : outs[k] = twinOuts[k]
        /\ (Len(outs) = Len(twinOuts)) => it = twin

\* C7: plugging any lifetime or any type into H0<T> yields T, and an
\* Iterator driven through the blanket StreamingIterator implementation
\* returns, call for call, what the iterator's own next() returns, at the
\* same type.
C7_IdentityFormTransparent ==
    /\ \A T \in SizedArgs :
        /\ \A a \in Lifetimes : PlugLifetime(H0(T), a) = T
        /\ \A D \in PlugArgs : PlugType(H0(T), D) = T
    /\ BlanketTransparent

\* C7 for Sized type arguments only: the part of the claim the
\* implementations of H0<T> meet.  An unsized argument is rejected.
C7_SizedArgsTransparent ==
    /\ \A T \in SizedArgs :
        /\ \A a \in Lifetimes : PlugLifetime(H0(T), a) = T
        /\ \A D \in PlugArgs :
            PlugType(H0(T), D) = IF IsSized(D) THEN T ELSE E0277
    /\ BlanketTransparent

C7_Witness ==
    /\ it.kind = "Iter"
    /\ it.slice = <<1, 2, 1>>
    /\ Len(outs) = 5
    /\ Len(twinOuts) = 5
    /\ outs[3].val = Some(1)
    /\ twinOuts[2].val = Some(2)
    /\ outs[4].val = None

(***************************************************************************)
(* Properties of the reference-counted boxes                               *)
(***************************************************************************)
\* C3: for Rc and for Arc, try_unwrap returns Ok(value) exactly when the
\* handle is the only strong handle outstanding at the call; the value then
\* leaves the box once.  Otherwise it returns Err with the handle, and the
\* stored value, the strong count and the handles are as before.
C3_TryUnwrapSoleOwner ==
    [][/\ RcTryUnwrap =>
            /\ (rcRes'.ret = Ok(rcInner.val)) <=> (rcHeld = 1)
            /\ (rcHeld = 1) => (rcInner.live /\ ~rcInner'.live /\ rcHeld' = 0)
            /\ (rcHeld # 1) =>
                (rcRes'.ret = Err /\ rcInner' = rcInner /\ rcHeld' = rcHeld)
       /\ \A t \in Threads : ArcTryUnwrap(t) =>
            /\ (arcRes'.ret = Ok(arcInner.val)) <=> (TotalHeld = 1)
            /\ (TotalHeld = 1) => (arcInner.live /\ ~arcInner'.live /\ TotalHeld' = 0)
            /\ (TotalHeld # 1) =>
                (arcRes'.ret = Err /\ arcInner' = arcInner /\ held' = held)]_vars

C3_Witness ==
    /\ R = "Arc"
    /\ arcRes = [op |-> "try_unwrap", ret |-> Err]
    /\ clones = 1
    /\ TotalHeld = 2
    /\ arcInner.live

\* C4: upgrade() returns a strong handle exactly when a strong handle is
\* outstanding at the step that decides it, and None otherwise; whoever
\* owns a strong handle finds the value still stored, under every
\* interleaving of upgrades with drops on other threads.
C4_UpgradeIffStrongOutstanding ==
    [][/\ RcUpgrade => ((rcRes'.ret = SomeHandle) <=> (rcHeld >= 1))
       /\ RcUpgrade => ((rcRes'.ret = None) <=> (rcHeld = 0))
       /\ \A t \in Threads : (ArcUpgradeCas(t) /\ pc'[t] = "idle") =>
            /\ (arcRes'.ret = SomeHandle) <=> (TotalHeld >= 1)
            /\ (arcRes'.ret = None) <=> (TotalHeld = 0)
       /\ (rcHeld' >= 1) => rcInner'.live
       /\ \A t \in Threads : (held'[t] >= 1) => arcInner'.live]_vars

C4_Witness ==
    /\ R = "Arc"
    /\ arcRes = [op |-> "upgrade", ret |-> None]
    /\ TotalHeld = 0
    /\ releases = 1
    /\ TotalWk >= 1

\* C5: with threads cloning and dropping handles of one Arc in any
\* interleaving, the strong count is 1 + clones - drops and equals the
\* number of handles outstanding; the value is dropped once, by the drop of
\* the last strong handle.
C5_ArcCountExact ==
    (R = "Arc") =>
        /\ (ups = 0 /\ unwraps = 0) => (arcInner.strong = 1 + clones - drops)
        /\ arcInner.strong = TotalHeld
        /\ releases <= 1
        /\ (releases = 1) => (arcInner.strong = 0 /\ ~arcInner.live)
        /\ (unwraps = 0 /\ \A t \in Threads : pc[t] # "drop_slow") =>
            /\ (releases = 1) <=> (arcInner.strong = 0)
            /\ arcInner.live <=> (arcInner.strong >= 1)

C5_Witness ==
    /\ R = "Arc"
    /\ clones = 2
    /\ drops = 3
    /\ ups = 0
    /\ unwraps = 0
    /\ releases = 1
    /\ arcInner.strong = 0
    /\ \A t \in Threads : pc[t] = "idle"

\* C6: a single-threaded client that applies the same operations to an
\* Rc<T> and to an Arc<T> sees the same result at every step and owns the
\* same handles, whether the box types are named directly or obtained by
\* plugging T into H1Rc / H1Arc.
C6_RcArcEquivalent ==
    /\ \A T \in BaseTypes :
        /\ PlugType(H1Rc, T) = RcOf(T)
        /\ PlugType(H1Arc, T) = ArcOf(T)
    /\ (R = "both") =>
        /\ rcRes = arcRes
        /\ rcHeld = held[1]
        /\ rcWk = wk[1]

C6_Witness ==
    /\ R = "both"
    /\ rcRes.op = "deref"
    /\ rcRes.ret = Val(rcInner.val)
    /\ arcRes.ret = Val(arcInner.val)
    /\ rcHeld = 2
    /\ held[1] = 2

====
